---- MODULE Spec2Model ----
(***************************************************************************)
(* Verification model of the AI debate moderator (run_debate.py,           *)
(* debate_core.py, debate_system.py, voice_engine.py).                     *)
(*                                                                         *)
(* A text is a sequence of atoms.  An atom is a word (a string without     *)
(* blanks or punctuation), the blank " ", the comma "," or one of the      *)
(* sentence terminators ".", "!", "?".  Python's character-level string    *)
(* operations used by the code (strip, split, rfind, slicing, lower,       *)
(* capitalize) are modelled on atoms; they agree with the character-level  *)
(* ones because every blank and every punctuation mark is an atom.         *)
(***************************************************************************)
EXTENDS Integers, Sequences, FiniteSets, TLC

(***************************************************************************)
(* Bounds of the model.                                                    *)
(***************************************************************************)
\* longest enumerated input text of the pure-function specification
MaxLen == 4
\* largest enumerated token budget of the pure-function specification
MaxBudget == 3
\* largest round count of a session that runs on fallback texts alone
MaxRounds == 2
\* the generation service answers with status 200 at most this often per run
MaxApiOk == 1
\* number of direct get_response calls of the agent-level specification
MaxCalls == 3

\* largest history budget tried on the trimming of a private history
MaxHistoryBudget == 12

(***************************************************************************)
(* Strings.                                                                *)
(***************************************************************************)
Terminators == {".", "!", "?"}

Punctuation == Terminators \cup {","}

IsWordAtom(a) == a # " " /\ a \notin Punctuation

\* str.lower() on one atom: the capitalised words that occur in the model
LowerAtom(a) ==
  CASE a = "But" -> "but"
    [] a = "While" -> "while"
    [] a = "W" -> "w"
    [] a = "I" -> "i"
    [] a = "Ok" -> "ok"
    [] a = "The" -> "the"
    [] a = "This" -> "this"
    [] a = "That's" -> "that's"
    [] a = "That" -> "that"
    [] a = "We" -> "we"
    [] a = "We're" -> "we're"
    [] a = "There" -> "there"
    [] a = "Let" -> "let"
    [] a = "Give" -> "give"
    [] a = "Testing" -> "testing"
    [] a = "Alex" -> "alex"
    [] a = "Jordan" -> "jordan"
    [] OTHER -> a

\* the first character of str.capitalize() on one (lower-case) atom
UpperAtom(a) ==
  CASE a = "but" -> "But"
    [] a = "while" -> "While"
    [] a = "w" -> "W"
    [] a = "i" -> "I"
    [] a = "ok" -> "Ok"
    [] a = "the" -> "The"
    [] a = "this" -> "This"
    [] a = "that's" -> "That's"
    [] a = "that" -> "That"
    [] a = "we" -> "We"
    [] a = "we're" -> "We're"
    [] a = "there" -> "There"
    [] a = "let" -> "Let"
    [] a = "give" -> "Give"
    [] a = "testing" -> "Testing"
    [] a = "alex" -> "Alex"
    [] a = "jordan" -> "Jordan"
    [] OTHER -> a

\* str.lower()
Lower(text) == [i \in DOMAIN text |-> LowerAtom(text[i])]

\* str.capitalize(): first character upper-cased, the rest lower-cased
Capitalize(text) ==
  [i \in DOMAIN text |-> IF i = 1 THEN UpperAtom(LowerAtom(text[i]))
                                  ELSE LowerAtom(text[i])]

RECURSIVE LStrip(_)
LStrip(text) ==
  IF text # <<>> /\ Head(text) = " " THEN LStrip(Tail(text)) ELSE text

RECURSIVE RStrip(_)
RStrip(text) ==
  IF text # <<>> /\ text[Len(text)] = " "
    THEN RStrip(SubSeq(text, 1, Len(text) - 1))
    ELSE text

\* str.strip()
Strip(text) == RStrip(LStrip(text))

RECURSIVE Flatten(_, _, _)
\* the concatenation of seqs[lo..hi] (by halves, to keep the evaluation shallow)
Flatten(seqs, lo, hi) ==
  IF lo > hi THEN <<>>
  ELSE IF lo = hi THEN seqs[lo]
  ELSE LET mid == (lo + hi) \div 2
       IN Flatten(seqs, lo, mid) \o Flatten(seqs, mid + 1, hi)

RECURSIVE SplitRange(_, _, _, _)
\* the pieces of text[lo..hi] between separators (by halves: the last piece of
\* the left half and the first piece of the right half are one piece)
SplitRange(text, seps, lo, hi) ==
  IF lo > hi THEN << <<>> >>
  ELSE IF lo = hi
    THEN (IF text[lo] \in seps THEN << <<>>, <<>> >> ELSE << <<text[lo]>> >>)
  ELSE LET mid == (lo + hi) \div 2
           l == SplitRange(text, seps, lo, mid)
           r == SplitRange(text, seps, mid + 1, hi)
       IN SubSeq(l, 1, Len(l) - 1) \o << l[Len(l)] \o r[1] >> \o Tail(r)

\* str.split(sep): the pieces between separators, empty pieces kept
Split(text, seps) == SplitRange(text, seps, 1, Len(text))

NonEmpty(s) == s # <<>>

\* str.split(): the blank-delimited words, empty pieces dropped
Words(text) == SelectSeq(Split(text, {" "}), NonEmpty)

\* ' '.join(words)
JoinWords(words) ==
  Flatten([i \in DOMAIN words |-> IF i = 1 THEN words[i] ELSE <<" ">> \o words[i]],
          1, Len(words))

\* str.rfind(a), 1-based; 0 stands for Python's -1
rfind(text, a) ==
  LET hits == {i \in DOMAIN text : text[i] = a}
  IN IF hits = {} THEN 0 ELSE CHOOSE i \in hits : \A j \in hits : j <= i

Max3(a, b, c) ==
  IF a >= b /\ a >= c THEN a ELSE IF b >= c THEN b ELSE c

(***************************************************************************)
(* The tokenizer (tiktoken, cl100k_base).  A token is a word together with *)
(* the blank in front of it, or a single blank or punctuation mark.        *)
(* decode(encode(text)) = text, and decoding a prefix of the tokens gives  *)
(* a prefix of the text.                                                   *)
(***************************************************************************)
\* the tokens that start at position i of the text: none when the atom is a
\* word that belongs to the token of the blank in front of it
TokenAt(text, i) ==
  IF IsWordAtom(text[i]) /\ i > 1 /\ text[i - 1] = " " THEN <<>>
  ELSE IF text[i] = " " /\ i < Len(text) /\ IsWordAtom(text[i + 1])
    THEN << <<" ", text[i + 1]>> >>
    ELSE << <<text[i]>> >>

\* tokenizer.encode
encode(text) == Flatten([i \in DOMAIN text |-> TokenAt(text, i)], 1, Len(text))

\* tokenizer.decode
decode(tokens) == Flatten(tokens, 1, Len(tokens))

\* TokenAwareDebateAgent.count_tokens
count_tokens(text) == Len(encode(text))

(***************************************************************************)
(* Literal texts of the program.  Txt writes a text from its words and     *)
(* punctuation marks, with one blank in front of every word but the first. *)
(***************************************************************************)
RECURSIVE Txt(_)
Txt(ws) ==
  IF Len(ws) <= 1 THEN ws
  ELSE (IF IsWordAtom(ws[2]) THEN <<ws[1], " ">> ELSE <<ws[1]>>) \o Txt(Tail(ws))

\* debate_core.py:200
Placeholder ==
  Txt(<<"I", "need", "to", "reconsider", "that", "point", "carefully", ".">>)

\* debate_core.py:383
Fallback1 == Txt(<<"Let", "me", "rephrase", "that", "point", "more", "clearly", ".">>)

\* debate_core.py:400
Fallback2 == Txt(<<"I", "need", "to", "address", "that", "point", "differently", ".">>)

\* debate_core.py:411, 419
ClosingPrompt == Txt(<<"Give", "your", "final", "complete", "summary", ".">>)

\* debate_system.py:230, 238
VerbalClosingPrompt == Txt(<<"Give", "your", "final", "summary", "statement", ".">>)

\* debate_system.py:149
StatusErrorReply ==
  Txt(<<"Let", "me", "reconsider", "that", "point", "for", "a", "moment", ".">>)

\* debate_system.py:153
NetworkErrorReply ==
  Txt(<<"I", "need", "to", "gather", "my", "thoughts", "on", "this", ".">>)

(***************************************************************************)
(* ResponseValidator: TokenAwareDebateSystem._check_completeness           *)
(***************************************************************************)
IncompleteIndicators ==
  { <<"although">>, <<"but">>, <<"however">>, <<"while">>, <<"though">>,
    <<"despite">> }

\* text.replace('!', '.').replace('?', '.')
ReplaceTerminators(text) ==
  [i \in DOMAIN text |-> IF text[i] \in {"!", "?"} THEN "." ELSE text[i]]

StripAll(segs) == [i \in DOMAIN segs |-> Strip(segs[i])]

\* the non-empty stripped pieces of the text split at its terminators
Sentences(text) ==
  SelectSeq(StripAll(Split(ReplaceTerminators(text), {"."})), NonEmpty)

\* the validator with the length test of the last sentence off by one
check_completeness_short(text) ==
  IF text = <<>> THEN FALSE
  ELSE IF text[Len(text)] \notin Terminators THEN FALSE
  ELSE LET words == Words(Strip(Lower(text))) IN
    IF Len(words) > 0 /\ words[Len(words)] \in IncompleteIndicators THEN FALSE
    ELSE LET sentences == Sentences(text) IN
      IF Len(sentences) = 0 THEN FALSE
      ELSE LET last_sentence == sentences[Len(sentences)] IN
        IF Len(Words(last_sentence)) < 1 THEN FALSE ELSE TRUE

\* lines 442-470
check_completeness(text) ==
  IF text = <<>> THEN FALSE
  ELSE IF text[Len(text)] \notin Terminators THEN FALSE
  ELSE LET words == Words(Strip(Lower(text))) IN
    IF Len(words) > 0 /\ words[Len(words)] \in IncompleteIndicators THEN FALSE
    ELSE LET sentences == Sentences(text) IN
      IF Len(sentences) = 0 THEN FALSE
      ELSE LET last_sentence == sentences[Len(sentences)] IN
        IF Len(Words(last_sentence)) < 2 THEN FALSE ELSE TRUE

(***************************************************************************)
(* ResponseTruncator: _ensure_complete_response and _truncate_to_tokens    *)
(***************************************************************************)
IncompletePhrases ==
  { <<"although">>, <<"however">>, <<"but">>, <<"while">>, <<"despite">>,
    <<"on", " ", "the", " ", "other", " ", "hand">>, <<"in", " ", "contrast">>,
    <<"nevertheless">> }

\* lines 203-215: make the text end with a terminator
EndWithPunctuation(text) ==
  IF text[Len(text)] \notin Terminators
    THEN LET last_period == rfind(text, ".")
             last_excl == rfind(text, "!")
             last_question == rfind(text, "?")
             last_end == Max3(last_period, last_excl, last_question)
         IN IF last_end # 0 THEN SubSeq(text, 1, last_end)
                            ELSE Append(text, ".")
    ELSE text

\* lines 224-225: the test that guards the removal of a trailing conjunction
EndsWithConjunction(text) ==
  LET words == Words(Lower(text))
  IN Len(words) > 2 /\ words[Len(words)] \in IncompletePhrases

\* lines 224-227: drop the last word when it is a conjunction
RemoveTrailingConjunction(text) ==
  LET words == Words(Lower(text))
  IN IF EndsWithConjunction(text)
       THEN Append(Capitalize(JoinWords(SubSeq(words, 1, Len(words) - 1))), ".")
       ELSE text

ensure_complete_response(raw) ==
  LET text == Strip(raw)
  IN IF text = <<>> THEN Placeholder
     ELSE RemoveTrailingConjunction(EndWithPunctuation(text))

truncate_to_tokens(text, max_tokens) ==
  LET tokens == encode(text)
  IN IF Len(tokens) <= max_tokens THEN text
     ELSE LET truncated_tokens == SubSeq(tokens, 1, max_tokens)
              truncated_text == decode(truncated_tokens)
          IN ensure_complete_response(truncated_text)

(***************************************************************************)
(* FallbackPool: the literal pools of _get_fallback_response               *)
(***************************************************************************)
ForOpening ==
  << Txt(<<"I", "support", "this", "position", "because", "the", "benefits",
           "are", "clear", "and", "significant", ".">>),
     Txt(<<"The", "evidence", "strongly", "favors", "this", "approach", "for",
           "several", "key", "reasons", ".">>),
     Txt(<<"This", "direction", "offers", "important", "advantages", "we",
           "should", "embrace", ".">>) >>

ForRebuttal ==
  << Txt(<<"That's", "a", "valid", "concern", ",", "but", "the", "data",
           "supports", "my", "position", "more", "strongly", ".">>),
     Txt(<<"While", "you", "raise", "good", "points", ",", "the", "advantages",
           "outweigh", "them", "significantly", ".">>),
     Txt(<<"I", "understand", "your", "perspective", ",", "but", "consider",
           "the", "proven", "benefits", "instead", ".">>) >>

ForUnprompted ==
  << Txt(<<"The", "statistics", "clearly", "support", "moving", "forward",
           "with", "this", "plan", ".">>),
     Txt(<<"We", "should", "focus", "on", "the", "demonstrated", "advantages",
           "of", "this", "approach", ".">>) >>

AgainstOpening ==
  << Txt(<<"I", "have", "serious", "concerns", "about", "this", "direction",
           "due", "to", "significant", "risks", ".">>),
     Txt(<<"We", "should", "reconsider", "this", "approach", "because", "of",
           "potential", "negative", "impacts", ".">>),
     Txt(<<"The", "evidence", "suggests", "we", "need", "more", "caution",
           "before", "proceeding", ".">>) >>

AgainstRebuttal ==
  << Txt(<<"That", "argument", "overlooks", "important", "risks", "we", "must",
           "consider", ".">>),
     Txt(<<"There", "are", "significant", "flaws", "in", "that", "position",
           "we", "need", "to", "address", ".">>),
     Txt(<<"We're", "not", "accounting", "for", "all", "potential", "negative",
           "consequences", ".">>) >>

AgainstUnprompted ==
  << Txt(<<"The", "risks", "involved", "require", "more", "careful",
           "consideration", ".">>),
     Txt(<<"There", "are", "better", "alternatives", "we", "should", "explore",
           "instead", ".">>) >>

\* lines 250-287: the pool for a position, a phase and an opponent statement
FallbackResponses(position, is_opening, opponent) ==
  IF position = "for"
    THEN IF is_opening THEN ForOpening
         ELSE IF opponent # <<>> THEN ForRebuttal ELSE ForUnprompted
    ELSE IF is_opening THEN AgainstOpening
         ELSE IF opponent # <<>> THEN AgainstRebuttal ELSE AgainstUnprompted

\* the pick with a pool whose entries lack their final period
get_fallback_response_cut(position, max_tokens, is_opening, opponent, choice) ==
  LET entry == FallbackResponses(position, is_opening, opponent)[choice]
      response == SubSeq(entry, 1, Len(entry) - 1)
      tokens == count_tokens(response)
  IN IF tokens > max_tokens THEN truncate_to_tokens(response, max_tokens)
                            ELSE response

\* lines 290-297: entry `choice` of the pool (random.choice), fitted to the budget
get_fallback_response(position, max_tokens, is_opening, opponent, choice) ==
  LET response == FallbackResponses(position, is_opening, opponent)[choice]
      tokens == count_tokens(response)
  IN IF tokens > max_tokens THEN truncate_to_tokens(response, max_tokens)
                            ELSE response

\* the values random.choice can return an index for
Choices(position, is_opening, opponent) ==
  DOMAIN FallbackResponses(position, is_opening, opponent)

(***************************************************************************)
(* Agents: create_token_aware_agents / create_debate_agents                *)
(***************************************************************************)
Agents == {"A", "B"}

\* debate_core.py:505
MaxTokensA == 80

\* debate_core.py:517
MaxTokensB == 200

\* debate_core.py:39 (the default of _truncate_history)
HistoryBudget == 300

Config ==
  [A |-> [name |-> "Alex", position |-> "for", max_tokens |-> MaxTokensA],
   B |-> [name |-> "Jordan", position |-> "against", max_tokens |-> MaxTokensB]]

Other(a) == IF a = "A" THEN "B" ELSE "A"

(***************************************************************************)
(* Answers of the generation service used in sessions.                     *)
(***************************************************************************)
GoodText == Txt(<<"I", "agree", ".">>)

OneWordText == <<"Ok">>

\* 100 words and a period: more than 1.1 * 80 tokens
LongText == [i \in 1..199 |-> IF i % 2 = 1 THEN "w" ELSE " "] \o <<".">>

PrefixedText == <<"Alex", ":", " ">> \o GoodText

ApiTexts(v) ==
  IF v = "token" THEN {GoodText, OneWordText, <<>>, LongText}
                 ELSE {GoodText, OneWordText, <<>>, PrefixedText}

\* network error, non-success status, malformed payload, timeout
Failures == {"network", "status", "malformed", "timeout"}

(***************************************************************************)
(* State.                                                                  *)
(***************************************************************************)
VARIABLES
  variant,               \* "token": run_debate.py + debate_core.py; "verbal": debate_system.py
  api_key,               \* "none" (unset), "empty", "other" (no sk- prefix), "sk"
  max_rounds,            \* number of rebuttal rounds of the session
  engine,                \* VoiceEngine.engine of the verbal variant: "ready" or "none"
  phase,                 \* position of the runner and of conduct_debate
  who,                   \* the agent whose turn it is
  round,                 \* round_num
  step,                  \* position inside a turn
  opp,                   \* opponent statement passed to the running/last produce call
  resp,                  \* text returned by the last produce call
  produced,              \* number of produce calls that have returned
  debate_history,        \* the Transcript
  conversation_history,  \* each agent's private history
  api_calls,             \* generation requests started, per agent
  api_ok,                \* generation requests answered with status 200
  in_flight,             \* generation requests in flight
  rendering,             \* utterances being rendered
  last_render,           \* result of the speak call of the turn just ended
  file,                  \* the transcript file
  exit,                  \* exit status: "running", "zero" (main returned),
                         \* "nonzero" (an exception left main)
  outcome,               \* how the run ended
  call                   \* the direct function call of the function-level specifications

vars ==
  << variant, api_key, max_rounds, engine, phase, who, round, step, opp, resp,
     produced, debate_history, conversation_history, api_calls, api_ok,
     in_flight, rendering, last_render, file, exit, outcome, call >>

NoFile == [emitted |-> FALSE, entries |-> <<>>]

NoCall == [op |-> "none"]

\* debate_core.py:59: a key is used only when it starts with "sk-"
HasKey == api_key = "sk"

(***************************************************************************)
(* DebateAgent: what one produce call computes.                            *)
(***************************************************************************)
RECURSIVE HistoryLoop(_, _, _, _, _)
\* the loop of _truncate_history over reversed(conversation_history)
HistoryLoop(history, i, total_tokens, truncated_history, max_tokens) ==
  IF i = 0 THEN truncated_history
  ELSE LET msg == history[i]
           msg_tokens == count_tokens(<<msg.speaker, ":", " ">> \o msg.content)
       IN IF total_tokens + msg_tokens <= max_tokens
            THEN HistoryLoop(history, i - 1, total_tokens + msg_tokens,
                             <<msg>> \o truncated_history, max_tokens)
            ELSE truncated_history

\* a trimming that keeps an entry only while the total stays below the budget
truncate_history_strict(history, max_tokens) ==
  HistoryLoop(history, Len(history), 0, <<>>, max_tokens - 1)

\* lines 39-53
truncate_history(history, max_tokens) ==
  HistoryLoop(history, Len(history), 0, <<>>, max_tokens)

\* a size test that never sends a text to the truncator
OverBudgetNever(token_count, max_tokens) == FALSE

\* debate_core.py:131: token_count > max_response_tokens * 1.1
OverBudget(token_count, max_tokens) == 10 * token_count > 11 * max_tokens

\* debate_core.py:124-133: the text of a status-200 answer, and the count recorded
ApiText(max_tokens, raw) ==
  LET text == ensure_complete_response(Strip(raw))
      token_count == count_tokens(text)
  IN [text |-> IF OverBudget(token_count, max_tokens)
                 THEN truncate_to_tokens(text, max_tokens)
                 ELSE text,
      tokens |-> token_count]

\* debate_core.py:171: the entries the prompt quotes
Recent(history) ==
  SubSeq(history, IF Len(history) > 3 THEN Len(history) - 2 ELSE 1, Len(history))

\* debate_core.py:136-144: store in history, then truncate the history
StoreInHistory(history, name, answer) ==
  truncate_history(
    Append(history, [speaker |-> name, content |-> answer.text,
                     tokens |-> answer.tokens]),
    HistoryBudget)

RECURSIVE RemoveName(_, _, _)
\* reply.replace(f"{name}:", "")
RemoveName(text, name, i) ==
  IF i > Len(text) THEN <<>>
  ELSE IF i < Len(text) /\ text[i] = name /\ text[i + 1] = ":"
    THEN RemoveName(text, name, i + 2)
    ELSE <<text[i]>> \o RemoveName(text, name, i + 1)

\* debate_system.py:132-136: the reply of a status-200 answer
VerbalReply(name, raw) ==
  LET reply == Strip(raw)
  IN IF Len(reply) >= 2 /\ reply[1] = name /\ reply[2] = ":"
       THEN Strip(RemoveName(reply, name, 1))
       ELSE reply

(***************************************************************************)
(* TurnScheduler: conduct_debate                                           *)
(***************************************************************************)
InTurn == phase \in {"opening", "rebuttal", "closing"}

InSession == phase \in {"voice_test", "opening", "rebuttal", "closing", "save"}

\* the is_opening argument of get_response
IsOpening == phase = "opening"

\* the opponent argument of the produce call that starts now
Opponent ==
  CASE phase = "opening" /\ who = "A" -> <<>>
    [] phase = "opening" /\ who = "B" -> resp
    [] phase = "rebuttal" /\ who = "A" -> debate_history[Len(debate_history)].text
    [] phase = "rebuttal" /\ who = "B" -> resp
    [] OTHER -> IF variant = "token" THEN ClosingPrompt ELSE VerbalClosingPrompt

\* the text handed to speak
Utterance ==
  IF phase = "voice_test"
    THEN Txt(<<"Testing", Config[who].name, "voice", ".">>)
  ELSE IF variant = "token" /\ phase = "rebuttal" /\ ~check_completeness(resp)
    THEN (IF who = "A" THEN Fallback1 ELSE Fallback2)
  ELSE resp

\* the entry appended to debate_history after speak
Entry ==
  IF variant = "token"
    THEN [speaker |-> Config[who].name, text |-> Utterance,
          tokens |-> count_tokens(Utterance)]
    ELSE [speaker |-> Config[who].name, text |-> resp]

\* the statement after the current turn
Advance ==
  CASE phase = "voice_test" /\ who = "A" ->
         [phase |-> "voice_test", who |-> "B", round |-> 0, step |-> "speak"]
    [] phase = "voice_test" /\ who = "B" ->
         [phase |-> "opening", who |-> "A", round |-> 0, step |-> "produce"]
    [] phase = "opening" /\ who = "A" ->
         [phase |-> "opening", who |-> "B", round |-> 0, step |-> "produce"]
    [] phase = "opening" /\ who = "B" ->
         [phase |-> "rebuttal", who |-> "A", round |-> 1, step |-> "produce"]
    [] phase = "rebuttal" /\ who = "A" ->
         [phase |-> "rebuttal", who |-> "B", round |-> round, step |-> "produce"]
    [] phase = "rebuttal" /\ who = "B" ->
         IF round < max_rounds
           THEN [phase |-> "rebuttal", who |-> "A", round |-> round + 1,
                 step |-> "produce"]
           ELSE [phase |-> "closing", who |-> "A", round |-> round,
                 step |-> "produce"]
    [] phase = "closing" /\ who = "A" ->
         [phase |-> "closing", who |-> "B", round |-> round, step |-> "produce"]
    [] OTHER ->
         [phase |-> "save", who |-> "B", round |-> round, step |-> "done"]

\* a scheduler that writes a rebuttal over the last entry of the transcript
AfterSpeakOverwriting(result) ==
  /\ debate_history' =
       IF phase = "opening" THEN Append(debate_history, Entry)
       ELSE IF phase = "rebuttal"
         THEN [debate_history EXCEPT ![Len(debate_history)] = Entry]
         ELSE debate_history
  /\ last_render' = result
  /\ rendering' = 0
  /\ phase' = Advance.phase
  /\ who' = Advance.who
  /\ round' = Advance.round
  /\ step' = Advance.step

\* a scheduler that goes on while the utterance is still being spoken
AfterSpeakDetached(result) ==
  /\ debate_history' =
       IF phase \in {"opening", "rebuttal"} THEN Append(debate_history, Entry)
                                            ELSE debate_history
  /\ last_render' = result
  /\ rendering' = rendering
  /\ phase' = Advance.phase
  /\ who' = Advance.who
  /\ round' = Advance.round
  /\ step' = Advance.step

\* speak has returned: record the statement (openings and rebuttals) and go on
AfterSpeak(result) ==
  /\ debate_history' =
       IF phase \in {"opening", "rebuttal"} THEN Append(debate_history, Entry)
                                            ELSE debate_history
  /\ last_render' = result
  /\ rendering' = 0
  /\ phase' = Advance.phase
  /\ who' = Advance.who
  /\ round' = Advance.round
  /\ step' = Advance.step

\* main has returned or an exception has left it; the locals are gone
Leave(code, how) ==
  /\ phase' = "exited"
  /\ step' = "done"
  /\ exit' = code
  /\ outcome' = how
  /\ opp' = <<>>
  /\ resp' = <<>>
  /\ in_flight' = 0
  /\ rendering' = 0
  /\ who' = "A"
  /\ round' = 0

Session == <<variant, api_key, max_rounds, engine>>

(***************************************************************************)
(* Initial states of a run of the program.                                 *)
(***************************************************************************)
\* run_debate.py:55-60 reads a string; debate_system.py:14 may read None
Keys(v) == IF v = "token" THEN {"empty", "other", "sk"} ELSE {"none", "empty", "sk"}

\* the round counts explored: a session that calls the generation service is
\* explored for one round, a session on fallback texts for 1..MaxRounds
RoundChoices(key) == IF key = "sk" THEN {1} ELSE 1..MaxRounds

Init ==
  /\ variant \in {"token", "verbal"}
  /\ api_key \in Keys(variant)
  /\ max_rounds \in RoundChoices(api_key)
  /\ engine \in (IF variant = "verbal" THEN {"ready", "none"} ELSE {"per_call"})
  /\ phase = "main"
  /\ who = "A"
  /\ round = 0
  /\ step = "done"
  /\ opp = <<>>
  /\ resp = <<>>
  /\ produced = 0
  /\ debate_history = <<>>
  /\ conversation_history = [a \in Agents |-> <<>>]
  /\ api_calls = [a \in Agents |-> 0]
  /\ api_ok = 0
  /\ in_flight = 0
  /\ rendering = 0
  /\ last_render = "none"
  /\ file = NoFile
  /\ exit = "running"
  /\ outcome = "none"
  /\ call = NoCall

(***************************************************************************)
(* The runners: run_debate.main and debate_system.main                     *)
(***************************************************************************)
\* everything main does before debate.conduct_debate()
Main ==
  /\ phase = "main"
  /\ IF variant = "token"
       THEN IF api_key = "empty"
              \* run_debate.py:82: debate_core defines no WorkingDebateSystem
              THEN Leave("nonzero", "import_error")
              ELSE /\ phase' = "voice_test"
                   /\ step' = "speak"
                   /\ UNCHANGED <<exit, outcome, opp, resp, in_flight, rendering,
                                  who, round>>
       ELSE IF api_key = "none"
              \* debate_system.py:303: None has no startswith
              THEN Leave("nonzero", "attribute_error")
            ELSE IF api_key = "empty"
              \* debate_system.py:306-308
              THEN Leave("zero", "no_key")
              ELSE /\ phase' = "opening"
                   /\ step' = "produce"
                   /\ UNCHANGED <<exit, outcome, opp, resp, in_flight, rendering,
                                  who, round>>
  /\ UNCHANGED <<Session, produced, debate_history, conversation_history,
                 api_calls, api_ok, last_render, file, call>>

(***************************************************************************)
(* produce: get_response / generate_response of agent a, called with       *)
(* is_opening and opponent.  The scheduler's actions and the direct calls  *)
(* of the agent-level specification share these steps.                     *)
(***************************************************************************)
\* a produce call that skips the key test
GeneratesAlways == TRUE

\* the call starts a generation request: always in debate_system.py:92-128,
\* only with a usable key in debate_core.py:59-63
Generates == variant = "token" => HasKey

\* debate_core.py:59-60: no usable key, the fallback is returned at once
ReturnFallback(a, is_opening, opponent) ==
  /\ \E choice \in Choices(Config[a].position, is_opening, opponent) :
       resp' = get_fallback_response(Config[a].position, Config[a].max_tokens,
                                     is_opening, opponent, choice)
  /\ UNCHANGED <<conversation_history, api_calls, api_ok, in_flight>>

\* debate_core.py:114-120, debate_system.py:122-128: the request is posted
PostRequest(a) ==
  /\ api_calls' = [api_calls EXCEPT ![a] = @ + 1]
  /\ in_flight' = in_flight + 1
  /\ UNCHANGED <<resp, conversation_history, api_ok>>

\* agents that share one history list: the answer is stored for both
ReturnAnswerShared(a, raw) ==
  /\ api_ok < MaxApiOk
  /\ IF variant = "token"
       THEN LET answer == ApiText(Config[a].max_tokens, raw)
            IN /\ resp' = answer.text
               /\ conversation_history' =
                    [b \in Agents |->
                       StoreInHistory(conversation_history[b], Config[a].name, answer)]
       ELSE LET reply == VerbalReply(Config[a].name, raw)
            IN /\ resp' = reply
               /\ conversation_history' =
                    [b \in Agents |->
                       Append(conversation_history[b],
                              [speaker |-> Config[a].name, content |-> reply])]
  /\ api_ok' = api_ok + 1
  /\ in_flight' = in_flight - 1
  /\ UNCHANGED api_calls

\* debate_core.py:122-146, debate_system.py:130-145: status 200 with text `raw`
ReturnAnswer(a, raw) ==
  /\ api_ok < MaxApiOk
  /\ IF variant = "token"
       THEN LET answer == ApiText(Config[a].max_tokens, raw)
            IN /\ resp' = answer.text
               /\ conversation_history' =
                    [conversation_history EXCEPT
                       ![a] = StoreInHistory(@, Config[a].name, answer)]
       ELSE LET reply == VerbalReply(Config[a].name, raw)
            IN /\ resp' = reply
               /\ conversation_history' =
                    [conversation_history EXCEPT
                       ![a] = Append(@, [speaker |-> Config[a].name,
                                         content |-> reply])]
  /\ api_ok' = api_ok + 1
  /\ in_flight' = in_flight - 1
  /\ UNCHANGED api_calls

\* a failure path that picks from the pool of the other phase
FailureTextOtherPhase(a, is_opening, opponent, kind, choice) ==
  IF variant = "token"
    THEN get_fallback_response(Config[a].position, Config[a].max_tokens,
                               ~is_opening, opponent, choice)
    ELSE IF kind = "status" THEN StatusErrorReply ELSE NetworkErrorReply

\* the text produce returns when the generation call fails in way `kind`
FailureText(a, is_opening, opponent, kind, choice) ==
  IF variant = "token"
    \* debate_core.py:148-151 and 64-68
    THEN get_fallback_response(Config[a].position, Config[a].max_tokens,
                               is_opening, opponent, choice)
    \* debate_system.py:146-153
    ELSE IF kind = "status" THEN StatusErrorReply ELSE NetworkErrorReply

\* the generation call fails in way `kind`
ReturnFailure(a, is_opening, opponent, kind) ==
  /\ \E choice \in Choices(Config[a].position, is_opening, opponent) :
       resp' = FailureText(a, is_opening, opponent, kind, choice)
  /\ in_flight' = in_flight - 1
  /\ UNCHANGED <<conversation_history, api_calls, api_ok>>

ProduceFallback ==
  /\ InTurn /\ step = "produce"
  /\ ~Generates
  /\ ReturnFallback(who, IsOpening, Opponent)
  /\ opp' = Opponent
  /\ produced' = produced + 1
  /\ step' = "speak"
  /\ last_render' = "none"
  /\ UNCHANGED <<Session, phase, who, round, debate_history, rendering, file, exit,
                 outcome, call>>

ApiStart ==
  /\ InTurn /\ step = "produce"
  /\ Generates
  /\ PostRequest(who)
  /\ opp' = Opponent
  /\ step' = "api"
  /\ last_render' = "none"
  /\ UNCHANGED <<Session, phase, who, round, produced, debate_history, rendering,
                 file, exit, outcome, call>>

ApiOk ==
  /\ InTurn /\ step = "api"
  /\ \E raw \in ApiTexts(variant) : ReturnAnswer(who, raw)
  /\ produced' = produced + 1
  /\ step' = "speak"
  /\ UNCHANGED <<Session, phase, who, round, opp, debate_history, rendering,
                 last_render, file, exit, outcome, call>>

ApiFail ==
  /\ InTurn /\ step = "api"
  /\ \E kind \in Failures : ReturnFailure(who, IsOpening, opp, kind)
  /\ produced' = produced + 1
  /\ step' = "speak"
  /\ UNCHANGED <<Session, phase, who, round, opp, debate_history, rendering,
                 last_render, file, exit, outcome, call>>

(***************************************************************************)
(* SpeechSink: FixedVoiceEngine.speak / VoiceEngine.speak                  *)
(***************************************************************************)
\* voice_engine.py:61-66, debate_system.py:58-68: an engine starts the utterance
SpeakStart ==
  /\ InSession /\ step = "speak"
  /\ variant = "verbal" => engine = "ready"
  /\ rendering' = rendering + 1
  /\ step' = "speaking"
  /\ UNCHANGED <<Session, phase, who, round, opp, resp, produced, debate_history,
                 conversation_history, api_calls, api_ok, in_flight, last_render,
                 file, exit, outcome, call>>

\* voice_engine.py:61-63 (_create_engine returned None), debate_system.py:54-56
SpeakNoEngine ==
  /\ InSession /\ step = "speak"
  /\ variant = "verbal" => engine = "none"
  /\ AfterSpeak(IF variant = "token" THEN "failed" ELSE "printed")
  /\ UNCHANGED <<Session, opp, resp, produced, conversation_history, api_calls,
                 api_ok, in_flight, file, exit, outcome, call>>

\* voice_engine.py:66-69, debate_system.py:68-69: runAndWait returns
SpeakEnd ==
  /\ InSession /\ step = "speaking"
  /\ AfterSpeak("ok")
  /\ UNCHANGED <<Session, opp, resp, produced, conversation_history, api_calls,
                 api_ok, in_flight, file, exit, outcome, call>>

\* say or runAndWait raises
SpeakError ==
  /\ InSession /\ step = "speaking"
  /\ IF variant = "token"
       \* voice_engine.py:70-72: caught, speak returns False
       THEN /\ AfterSpeak("failed")
            /\ UNCHANGED <<opp, resp, in_flight, exit, outcome>>
       \* debate_system.py:68-69 are not guarded: main catches it at line 351
       ELSE /\ Leave("zero", "error")
            /\ last_render' = "raised"
            /\ UNCHANGED debate_history
  /\ UNCHANGED <<Session, produced, conversation_history, api_calls, api_ok, file,
                 call>>

(***************************************************************************)
(* The end of the run.                                                     *)
(***************************************************************************)
\* _save_token_aware_transcript / save_transcript, then main returns
SaveTranscript ==
  /\ phase = "save"
  /\ file' = [emitted |-> TRUE, entries |-> debate_history]
  /\ Leave("zero", "completed")
  /\ UNCHANGED <<Session, produced, debate_history,
                 conversation_history, api_calls, api_ok, last_render, call>>

\* open() fails in the save: main catches the exception (run_debate.py:102,
\* debate_system.py:351) and returns
SaveFails ==
  /\ phase = "save"
  /\ Leave("zero", "error")
  /\ UNCHANGED <<Session, produced, debate_history,
                 conversation_history, api_calls, api_ok, last_render, file, call>>

\* KeyboardInterrupt during conduct_debate: main catches it (run_debate.py:100,
\* debate_system.py:349) and returns
Interrupt ==
  /\ InSession
  /\ Leave("zero", "interrupted")
  /\ UNCHANGED <<Session, produced, debate_history,
                 conversation_history, api_calls, api_ok, last_render, file, call>>

Next ==
  \/ Main
  \/ ProduceFallback
  \/ ApiStart
  \/ ApiOk
  \/ ApiFail
  \/ SpeakStart
  \/ SpeakNoEngine
  \/ SpeakEnd
  \/ SpeakError
  \/ SaveTranscript
  \/ SaveFails
  \/ Interrupt

Spec == Init /\ [][Next]_vars

(***************************************************************************)
(* Function-level specification: the validator and the truncator applied   *)
(* to every text of at most MaxLen atoms.                                  *)
(***************************************************************************)
Alphabet == {"w", "but", "But", " ", ",", ".", "!"}

Texts == UNION {[1..n -> Alphabet] : n \in 0..MaxLen}

\* the program state of the function-level and agent-level specifications
Standby(v, key, where) ==
  /\ variant = v
  /\ api_key = key
  /\ max_rounds = 1
  /\ engine = "per_call"
  /\ phase = where
  /\ who = "A"
  /\ round = 0
  /\ step = "done"
  /\ opp = <<>>
  /\ resp = <<>>
  /\ produced = 0
  /\ debate_history = <<>>
  /\ conversation_history = [a \in Agents |-> <<>>]
  /\ api_calls = [a \in Agents |-> 0]
  /\ api_ok = 0
  /\ in_flight = 0
  /\ rendering = 0
  /\ last_render = "none"
  /\ file = NoFile
  /\ exit = "running"
  /\ outcome = "none"

FnInit ==
  /\ Standby("token", "empty", "function")
  /\ call \in {[op |-> "input", text |-> t] : t \in Texts}

ProgramState ==
  << variant, api_key, max_rounds, engine, phase, who, round, step, opp, resp,
     produced, debate_history, conversation_history, api_calls, api_ok,
     in_flight, rendering, last_render, file, exit, outcome >>

\* _check_completeness(text)
Validate ==
  /\ phase = "function" /\ call.op = "input"
  /\ call' = [op |-> "check_completeness", text |-> call.text,
              ok |-> check_completeness(call.text)]
  /\ UNCHANGED ProgramState

\* _ensure_complete_response(text)
Repair ==
  /\ phase = "function" /\ call.op = "input"
  /\ call' = [op |-> "ensure_complete_response", text |-> call.text,
              out |-> ensure_complete_response(call.text)]
  /\ UNCHANGED ProgramState

\* _truncate_to_tokens(text, max_tokens)
Fit ==
  /\ phase = "function" /\ call.op = "input"
  /\ \E max_tokens \in 0..MaxBudget :
       call' = [op |-> "truncate_to_tokens", text |-> call.text,
                max_tokens |-> max_tokens,
                out |-> truncate_to_tokens(call.text, max_tokens)]
  /\ UNCHANGED ProgramState

FnNext ==
  \/ Validate
  \/ Repair
  \/ Fit

SpecFn == FnInit /\ [][FnNext]_vars

(***************************************************************************)
(* Agent-level specification: direct produce calls on the two agents that  *)
(* create_token_aware_agents(api_key) / create_debate_agents(api_key)      *)
(* build, for every is_opening and with or without an opponent statement.  *)
(***************************************************************************)
\* the keys an agent is built with: create_token_aware_agents(api_key="") and
\* create_debate_agents(api_key) take any string
AgentKeys(v) == IF v = "token" THEN {"empty", "other", "sk"} ELSE {"empty", "sk"}

Opponents == {<<>>, GoodText}

\* 85 words and a period: over the budget of 80 tokens, within 1.1 * 80
MidText == [i \in 1..169 |-> IF i % 2 = 1 THEN "w" ELSE " "] \o <<".">>

\* further answers of the generation service tried in direct calls: blank
\* text, no terminator, a sentence that stops at a conjunction
DirectTexts ==
  { <<" ">>, Txt(<<"I", "agree">>), Txt(<<"I", "agree", ",", "however">>), MidText }

AgentInit ==
  /\ \E v \in {"token", "verbal"} : \E key \in AgentKeys(v) : Standby(v, key, "agent")
  /\ call = [op |-> "idle"]

Callable == phase = "agent" /\ call.op \in {"idle", "returned"} /\ produced < MaxCalls

Untouched ==
  << variant, api_key, max_rounds, engine, phase, who, round, step, opp,
     debate_history, rendering, last_render, file, exit, outcome >>

DirectFallback ==
  /\ Callable
  /\ ~Generates
  /\ \E a \in Agents : \E is_opening \in BOOLEAN : \E opponent \in Opponents :
       /\ ReturnFallback(a, is_opening, opponent)
       /\ call' = [op |-> "returned", agent |-> a, is_opening |-> is_opening,
                   opponent |-> opponent, via |-> "fallback"]
  /\ produced' = produced + 1
  /\ UNCHANGED Untouched

DirectApiStart ==
  /\ Callable
  /\ Generates
  /\ \E a \in Agents : \E is_opening \in BOOLEAN : \E opponent \in Opponents :
       /\ PostRequest(a)
       /\ call' = [op |-> "api", agent |-> a, is_opening |-> is_opening,
                   opponent |-> opponent, via |-> "pending"]
  /\ UNCHANGED produced
  /\ UNCHANGED Untouched

DirectApiOk ==
  /\ phase = "agent" /\ call.op = "api"
  /\ \E raw \in ApiTexts(variant) \cup DirectTexts :
       /\ ReturnAnswer(call.agent, raw)
       /\ call' = [op |-> "returned", agent |-> call.agent,
                   is_opening |-> call.is_opening, opponent |-> call.opponent,
                   via |-> "answer", raw |-> raw]
  /\ produced' = produced + 1
  /\ UNCHANGED Untouched

DirectApiFail ==
  /\ phase = "agent" /\ call.op = "api"
  /\ \E kind \in Failures :
       /\ ReturnFailure(call.agent, call.is_opening, call.opponent, kind)
       /\ call' = [call EXCEPT !.op = "returned", !.via = kind]
  /\ produced' = produced + 1
  /\ UNCHANGED Untouched

AgentNext ==
  \/ DirectFallback
  \/ DirectApiStart
  \/ DirectApiOk
  \/ DirectApiFail

SpecAgent == AgentInit /\ [][AgentNext]_vars

(***************************************************************************)
(* History-level specification: _truncate_history applied to every private *)
(* history of at most MaxCalls entries, under every budget up to           *)
(* MaxHistoryBudget.                                                       *)
(***************************************************************************)
HistoryTexts ==
  { Txt(<<"w", ".">>), Txt(<<"w", "w", ".">>), Txt(<<"w", "w", "w", "w", ".">>) }

\* the entries agent A stores (debate_core.py:136-141), sizes as measured
HistoryEntries ==
  { [speaker |-> Config["A"].name, content |-> c, tokens |-> count_tokens(c)] :
      c \in HistoryTexts }

Histories == UNION {[1..n -> HistoryEntries] : n \in 0..MaxCalls}

HistInit ==
  /\ Standby("token", "sk", "history")
  /\ call \in {[op |-> "history", history |-> h] : h \in Histories}

\* _truncate_history(max_tokens)
Trim ==
  /\ phase = "history" /\ call.op = "history"
  /\ \E max_tokens \in 0..MaxHistoryBudget :
       call' = [op |-> "truncate_history", history |-> call.history,
                max_tokens |-> max_tokens,
                out |-> truncate_history(call.history, max_tokens)]
  /\ UNCHANGED ProgramState

HistNext ==
  \/ Trim

SpecHistory == HistInit /\ [][HistNext]_vars

(***************************************************************************)
(* Claims about a whole run (specification Spec).                          *)
(***************************************************************************)
\* the number of Statements of a full session: openings, rebuttals, closings
AllStatements == 2 + 2 * max_rounds + 2

\* the speakers alternate, starting with agent A
Alternates(entries) ==
  \A i \in DOMAIN entries :
    entries[i].speaker = Config[IF i % 2 = 1 THEN "A" ELSE "B"].name

\* C1: a session with round count R that runs to completion holds, and writes
\* to the transcript file, exactly 2 + 2R + 2 Statements whose speakers
\* alternate A, B, ... from agent A and whose last entry is agent B's closing
\* statement.
TranscriptHasAllStatements ==
  /\ phase = "save" =>
       /\ Len(debate_history) = AllStatements
       /\ Alternates(debate_history)
       /\ debate_history[Len(debate_history)].text = resp
  /\ outcome = "completed" =>
       /\ file.emitted
       /\ Len(file.entries) = AllStatements
       /\ Alternates(file.entries)

\* C2: when the session is interrupted by the user after k Statements have
\* been appended, a transcript file with exactly those k Statements is still
\* written and the interrupt does not leave the top-level runner.
InterruptedRunSavesTranscript ==
  outcome = "interrupted" =>
    /\ file.emitted
    /\ file.entries = debate_history
    /\ exit = "zero"

\* C3: when an unexpected exception is raised in the scheduler loop after k
\* Statements have been appended, the runner catches it, the Transcript of
\* those k Statements is still written and the process exits non-zero.
FailedRunSavesTranscript ==
  outcome = "error" =>
    /\ file.emitted
    /\ file.entries = debate_history
    /\ exit = "nonzero"

\* C4: without a generation credential, a session started through the main
\* runner runs on fallback texts to completion and writes a transcript file
\* whose Statements are all non-empty and complete.
NoCredentialRunCompletes ==
  (variant = "token" /\ api_key = "empty" /\ phase = "exited"
     /\ outcome # "interrupted") =>
    /\ outcome = "completed"
    /\ file.emitted
    /\ Len(file.entries) > 0
    /\ \A i \in DOMAIN file.entries :
         /\ file.entries[i].text # <<>>
         /\ check_completeness(file.entries[i].text)

\* C7: whatever the generation calls and the rendering calls do, a session
\* that the user does not interrupt never stops early: when it has ended, a
\* Statement has been produced for each opening, each of the 2R rebuttals and
\* each closing.
EveryPhaseYieldsStatement ==
  (phase = "exited" /\ outcome \in {"completed", "error"}) =>
    produced = AllStatements

(***************************************************************************)
(* Claims about direct produce calls (specification SpecAgent).            *)
(***************************************************************************)
Returned == phase = "agent" /\ call.op = "returned"

NoCalls == \A a \in Agents : api_calls[a] = 0

\* the texts the pool can give agent a for a phase and an opponent statement
PoolTexts(a, is_opening, opponent) ==
  { get_fallback_response(Config[a].position, Config[a].max_tokens,
                          is_opening, opponent, choice) :
      choice \in Choices(Config[a].position, is_opening, opponent) }

PoolTextsAreComplete ==
  (Returned /\ variant = "token" /\ call.via # "answer") =>
    /\ resp # <<>>
    /\ check_completeness(resp)
    /\ resp \in PoolTexts(call.agent, call.is_opening, call.opponent)

PoolTextPicked ==
  /\ Returned /\ variant = "token"
  /\ call.via = "timeout"
  /\ call.agent = "B" /\ ~call.is_opening /\ call.opponent = <<>>
  /\ resp = AgainstUnprompted[2]

(***************************************************************************)
(* Claims about the validator and the truncator (specification SpecFn).    *)
(***************************************************************************)
\* C8: for every text and every budget N the truncator returns a text of at
\* most N tokens, one more allowed for an added period, that satisfies the
\* validator.
FitWithinBudgetAndComplete ==
  (phase = "function" /\ call.op = "truncate_to_tokens") =>
    /\ count_tokens(call.out) <= call.max_tokens + 1
    /\ check_completeness(call.out)

\* the atoms of a text that belong to a word of a sentence
Substantive(text) == {i \in DOMAIN text : text[i] \notin Terminators \cup {" "}}

\* the words of the last stretch between terminators that holds a word
FinalSentenceWords(text) ==
  LET last == CHOOSE i \in Substantive(text) : \A j \in Substantive(text) : j <= i
      first == CHOOSE i \in 1..last :
                 /\ \A j \in i..last : text[j] \notin Terminators
                 /\ i > 1 => text[i - 1] \in Terminators
  IN Cardinality({i \in first..last :
                    /\ text[i] # " "
                    /\ i = first \/ text[i - 1] = " "})

Connectives == {"although", "but", "however", "while", "though", "despite"}

\* the last blank-delimited token is a bare connective word
EndsInConnective(text) ==
  \E i \in DOMAIN text :
    /\ LowerAtom(text[i]) \in Connectives
    /\ i > 1 => text[i - 1] = " "
    /\ \A j \in (i + 1)..Len(text) : text[j] = " "

\* C10: the validator returns false on the empty text, on a text whose last
\* character is no terminator, on a text whose last blank-delimited token is
\* a connective, on a text with no non-empty sentence and on a text whose
\* final sentence has fewer than 2 words; on every other text it returns true.
ValidatorMatchesRules ==
  (phase = "function" /\ call.op = "check_completeness") =>
    call.ok = ~ \/ call.text = <<>>
                \/ call.text[Len(call.text)] \notin Terminators
                \/ EndsInConnective(call.text)
                \/ Substantive(call.text) = {}
                \/ FinalSentenceWords(call.text) < 2

ValidatorAccepts ==
  /\ phase = "function" /\ call.op = "check_completeness"
  /\ call.text = <<"w", " ", "But", "!">>
  /\ call.ok

(***************************************************************************)
(* Further claims about a whole run (specification Spec).                  *)
(***************************************************************************)
\* C11: the opponent statement passed to the active agent's produce call is
\* the text of the last entry of the transcript, and the empty text when the
\* transcript is empty, at the openings, the rebuttals and the closings.
OpponentIsLastStatement ==
  (InTurn /\ step \in {"api", "speak", "speaking"}) =>
    opp = IF debate_history = <<>> THEN <<>>
          ELSE debate_history[Len(debate_history)].text

\* C12: a rendering failure never leaves the speech sink: no run ends in an
\* error because a speak call raised.
RenderingFailureIsAbsorbed ==
  (phase = "exited" /\ outcome = "error") => last_render # "raised"

\* C13: at most one activity is in progress: never two generation requests
\* in flight, never two renderings at once, and no generation request while
\* a statement is being rendered.
OneActivityAtATime ==
  /\ in_flight \in {0, 1}
  /\ rendering \in {0, 1}
  /\ in_flight + rendering <= 1
  /\ in_flight = 1 <=> (InTurn /\ step = "api")
  /\ rendering = 1 <=> (InSession /\ step = "speaking")

RequestAfterRendering ==
  /\ phase = "rebuttal" /\ who = "B" /\ step = "api"
  /\ in_flight = 1 /\ rendering = 0
  /\ Len(debate_history) = 3

\* C19: at every phase boundary every entry of an agent's private history is
\* the text of a statement of the transcript, and the prompt quotes at most
\* the last 3 entries.
WindowIsViewOfTranscript ==
  ((InTurn /\ step = "produce") \/ phase = "save") =>
    \A a \in Agents :
      /\ Len(Recent(conversation_history[a])) <= 3
      /\ \A i \in DOMAIN conversation_history[a] :
           \E j \in DOMAIN debate_history :
             debate_history[j].text = conversation_history[a][i].content

\* C21: the transcript is append-only: every step of a session leaves it
\* as it is or adds exactly one statement at its end; no entry is changed,
\* removed or reordered.
TranscriptIsAppendOnly ==
  [][ \/ debate_history' = debate_history
      \/ /\ Len(debate_history') = Len(debate_history) + 1
         /\ SubSeq(debate_history', 1, Len(debate_history)) = debate_history ]_vars

TranscriptHasGrown ==
  /\ phase = "save"
  /\ max_rounds = 2
  /\ Len(debate_history) = 2 + 2 * max_rounds
  /\ Alternates(debate_history)

\* C22: a produce call on one agent changes only that agent's private
\* history: every step taken while the call runs leaves the other agent's
\* history and the transcript unchanged, whether the call ends by
\* generation, truncation or fallback.
ProduceChangesOwnHistoryOnly ==
  [][ (InTurn /\ step \in {"produce", "api"}) =>
        /\ conversation_history'[Other(who)] = conversation_history[Other(who)]
        /\ debate_history' = debate_history
        /\ DOMAIN conversation_history' = Agents ]_vars

TruncatedAnswerStored ==
  /\ variant = "token"
  /\ phase = "rebuttal" /\ who = "A" /\ step = "speak"
  /\ Len(conversation_history["A"]) = 1
  /\ conversation_history["A"][1].tokens > MaxTokensA
  /\ conversation_history["B"] = <<>>
  /\ Len(debate_history) = 2

(***************************************************************************)
(* Further claims about direct produce calls (specification SpecAgent).    *)
(***************************************************************************)
Answered == Returned /\ call.via = "answer"

\* C14: after a successful generation call the text produce returns
\* satisfies the validator whatever non-empty text the service answered.
GeneratedTextIsComplete ==
  (Answered /\ Strip(call.raw) # <<>>) => check_completeness(resp)

\* C15: when the generation call succeeds with an empty or blank text,
\* produce returns an entry of the fallback pool for the stance and phase.
EmptyAnswerGivesPoolText ==
  (Answered /\ Strip(call.raw) = <<>>) =>
    resp \in PoolTexts(call.agent, call.is_opening, call.opponent)

\* C16: a generated text that produce returns never measures more than 1.1
\* times the agent's budget: a validated text above that size is passed
\* through the truncator, also when it is complete; any other is returned
\* as validated.
GeneratedTextWithinTolerance ==
  (Answered /\ variant = "token") =>
    LET max_tokens == Config[call.agent].max_tokens
        validated == ensure_complete_response(Strip(call.raw))
    IN /\ 10 * count_tokens(resp) <= 11 * max_tokens
       /\ resp = IF 10 * count_tokens(validated) > 11 * max_tokens
                   THEN truncate_to_tokens(validated, max_tokens)
                   ELSE validated

LongAnswerTruncated ==
  /\ Answered /\ variant = "token"
  /\ call.agent = "A" /\ call.raw = LongText
  /\ check_completeness(call.raw)
  /\ count_tokens(resp) = MaxTokensA + 1

\* C17: every entry of an agent's private history records the measured size
\* of the text it holds, also when the text was truncated to the budget.
HistoryRecordsMeasuredSize ==
  (phase = "agent" /\ variant = "token") =>
    \A a \in Agents : \A i \in DOMAIN conversation_history[a] :
      conversation_history[a][i].tokens =
        count_tokens(conversation_history[a][i].content)

(***************************************************************************)
(* Further claims about the truncator (specification SpecFn).              *)
(***************************************************************************)
\* C20: the text returned by the sentence repair, and by the truncator, does
\* not end with a connective word followed by its closing terminator.
RepairStripsConnective ==
  (phase = "function" /\ call.op \in {"ensure_complete_response", "truncate_to_tokens"}) =>
    LET out == call.out
        n == Len(out)
    IN ~ /\ n >= 2
         /\ out[n] \in Terminators
         /\ LowerAtom(out[n - 1]) \in Connectives
         /\ n > 2 => out[n - 2] = " "

(***************************************************************************)
(* Claims about the private history (specification SpecHistory).           *)
(***************************************************************************)
RECURSIVE MeasuredSize(_)
\* the total size of the entries, each measured as "speaker: content"
MeasuredSize(entries) ==
  IF entries = <<>> THEN 0
  ELSE count_tokens(<<entries[1].speaker, ":", " ">> \o entries[1].content)
         + MeasuredSize(Tail(entries))

\* C18: trimming replaces the history by a contiguous suffix of it, in the
\* original order, whose total measured size is at most the budget; the
\* suffix kept is the longest one that fits.
TrimKeepsLongestFittingSuffix ==
  (phase = "history" /\ call.op = "truncate_history") =>
    LET history == call.history
        out == call.out
        n == Len(history)
        k == Len(out)
    IN /\ k <= n
       /\ out = SubSeq(history, n - k + 1, n)
       /\ MeasuredSize(out) <= call.max_tokens
       /\ k < n => MeasuredSize(SubSeq(history, n - k, n)) > call.max_tokens

OldestEntryDropped ==
  /\ phase = "history" /\ call.op = "truncate_history"
  /\ Len(call.history) = 3
  /\ Len(call.out) = 2
  /\ call.out = Tail(call.history)
  /\ MeasuredSize(call.out) = call.max_tokens

====
